---- MODULE Spec2Model ----
(***************************************************************************)
(* LXArtNet (examples/ArtNetDMX/LXArtNetEthernet2.h): a single-universe    *)
(* Art-Net node.  The class keeps ONE byte buffer, _packet_buffer, which   *)
(* holds the incoming or outgoing packet and, inside it, the dmx levels    *)
(* (no double buffer); slot s lives at _packet_buffer[17 + s].             *)
(*                                                                         *)
(* The header declares the state and documents each method; the method     *)
(* bodies are not part of the sources, so each body is modelled from its   *)
(* documented contract in the header and, where the header is silent,      *)
(* from the written specification of the engine.                           *)
(*                                                                         *)
(* C arrays are 0-based, TLA+ sequences 1-based: byte k of a packet or of  *)
(* _packet_buffer is element k + 1 of the sequence that models it.         *)
(***************************************************************************)
EXTENDS Integers, Sequences, FiniteSets, TLC

VARIABLES
    _packet_buffer,      \* uint8_t[ARTNET_BUFFER_MAX]
    _dmx_slots,          \* int
    _universe,           \* uint8_t, high nibble subnet, low nibble universe
    _sequence,           \* uint8_t
    _my_address,         \* IPAddress
    _broadcast_address,  \* IPAddress
    _dmx_sender,         \* IPAddress
    remoteIP,            \* EthernetUDP::remoteIP(): source of the packet last received
    sequence0,           \* the value _sequence was constructed with
    sends,               \* the number of sendDMX calls made so far
    calls,               \* the number of calls made on the object so far
    before,              \* the call made before the last one
    last                 \* the last call made on the object: its inputs, its
                         \* return value, what it gave the transport

vars == << _packet_buffer, _dmx_slots, _universe, _sequence, _my_address,
           _broadcast_address, _dmx_sender, remoteIP, sequence0, sends, calls,
           before, last >>

----------------------------------------------------------------------------
(* Program constants                                                       *)

ARTNET_PORT == 6454
ARTNET_BUFFER_MAX == 530
ARTNET_REPLY_SIZE == 239
ARTNET_ADDRESS_OFFSET_low == 17 - 1
ARTNET_ADDRESS_OFFSET == 17

ARTNET_ART_POLL == 8192
ARTNET_ART_POLL_REPLY == 8448
ARTNET_ART_DMX == 20480
ARTNET_ART_ADDRESS == 24576
ARTNET_NOP == 0

\* "number of slots 1 to 512", "slot 1 to 512"
DMX_SLOTS_MAX == 512

\* the range of a uint8_t
UINT8_RANGE == 256

Byte == 0 .. (UINT8_RANGE - 1)

\* conversion of an int to uint8_t
uint8_as_int(x) == x
uint8(x) == x % UINT8_RANGE

\* x & 0x0f, x & 0xf0, and the test x & 0x80 of a byte
LowNibble(x) == x % 16
HighNibble(x) == (x \div 16) * 16
HighBit(x) == x >= 128

\* IPAddress values: 0.0.0.0 stands for "no address"
INADDR_NONE == 0
NodeAddress == 10
BroadcastAddress == 255

----------------------------------------------------------------------------
(* Wire format                                                             *)

Zeros(n) == [i \in 1 .. n |-> 0]

\* "Art-Net" and a terminating zero
ARTNET_ID == << 65, 114, 116, 45, 78, 101, 116, 0 >>

HEADER_SIZE == 10

\* the opcode is little-endian, every other integer big-endian
LittleEndian16(x) == << x % 256, x \div 256 >>
BigEndian16(x) == << x \div 256, x % 256 >>

PROTOCOL_VERSION == 14

\* bytes 0..11 of every packet of the protocol
PacketHead(opcode) ==
    ARTNET_ID \o LittleEndian16(opcode) \o BigEndian16(PROTOCOL_VERSION)

\* bytes 0..17 of an ArtDMX packet: head, sequence, physical port, universe
\* address, reserved high byte, length
ArtDmxHead(seq, uni, len) ==
    PacketHead(ARTNET_ART_DMX) \o << seq, 0, uni, 0 >> \o BigEndian16(len)

\* the size of that head
DMX_HEAD_SIZE == 18

\* an ArtDMX packet whose length field is len and that carries payload
ArtDmx(seq, uni, len, payload) == ArtDmxHead(seq, uni, len) \o payload

\* ArtPoll: head, flags, priority
ArtPoll == PacketHead(ARTNET_ART_POLL) \o << 0, 0 >>

\* offsets (0-based) of the fields of an ArtAddress packet
ADDRESS_SWOUT == 100
ADDRESS_SUBSWITCH == 104
ADDRESS_COMMAND == 106

CANCEL_MERGE == 1

\* ArtAddress: head, net switch, bind index, short name (18), long name (64),
\* input universes (4), output universes (4), sub switch, video, command
ArtAddress(swout, subswitch, command) ==
    PacketHead(ARTNET_ART_ADDRESS) \o << 0, 0 >> \o Zeros(18) \o Zeros(64)
        \o Zeros(4) \o << swout, 0, 0, 0 >> \o << subswitch, 0, command >>

\* an IPAddress as its four bytes
AddressBytes(a) ==
    << (a \div 16777216) % 256, (a \div 65536) % 256, (a \div 256) % 256, a % 256 >>

\* ArtPollReply, ARTNET_REPLY_SIZE bytes: head without version, address, port,
\* version, net switch, sub switch (byte 19), oem, ubea, status (byte 23),
\* esta, names and report, ports, the output universe (byte 190), padding
ArtPollReply(addr, uni, locked) ==
    ARTNET_ID \o LittleEndian16(ARTNET_ART_POLL_REPLY) \o AddressBytes(addr)
        \o LittleEndian16(ARTNET_PORT) \o << 0, 0 >>
        \o << 0, uni \div 16 >> \o << 0, 0, 0 >>
        \o << IF locked THEN 1 ELSE 0 >> \o << 0, 0 >>
        \o Zeros(18) \o Zeros(64) \o Zeros(64)
        \o << 0, 1 >> \o << 128, 0, 0, 0 >> \o Zeros(4) \o Zeros(4) \o Zeros(4)
        \o << uni % 16, 0, 0, 0 >>
        \o Zeros(ARTNET_REPLY_SIZE - 194)

----------------------------------------------------------------------------
(* The object's state seen through its accessors                           *)

\* byte k (0-based) of a buffer
At(buf, k) == buf[k + 1]

\* the level of slot s in a buffer: dmx data starts after ARTNET_ADDRESS_OFFSET
SlotOf_0based(buf, s) == At(buf, ARTNET_ADDRESS_OFFSET + s - 1)
SlotOf(buf, s) == At(buf, ARTNET_ADDRESS_OFFSET + s)

universe == _universe
numberOfSlots == _dmx_slots

InSlotRange_from0(s) == s >= 0 /\ s <= DMX_SLOTS_MAX
InSlotRange(s) == s >= 1 /\ s <= DMX_SLOTS_MAX

getSlot(slot) == IF InSlotRange(slot) THEN SlotOf(_packet_buffer, slot) ELSE 0

\* the slot levels, by slot number
dmxData == [s \in 1 .. DMX_SLOTS_MAX |-> SlotOf(_packet_buffer, s)]

Locked == _dmx_sender # INADDR_NONE

----------------------------------------------------------------------------
(* Decoding                                                                *)

\* parse_header: the opcode of the packet in buf if it starts with the
\* identifier, ARTNET_NOP otherwise
parse_header(buf) ==
    IF SubSeq(buf, 1, Len(ARTNET_ID)) = ARTNET_ID
    THEN At(buf, 8) + 256 * At(buf, 9)
    ELSE ARTNET_NOP

\* the packet of n bytes read over the front of the buffer; a packet longer
\* than the buffer is cut to ARTNET_BUFFER_MAX bytes
ReadInto_cleared(buf, bytes) ==
    IF Len(bytes) >= ARTNET_BUFFER_MAX
    THEN SubSeq(bytes, 1, ARTNET_BUFFER_MAX)
    ELSE bytes \o Zeros(ARTNET_BUFFER_MAX - Len(bytes))

ReadInto(buf, bytes) ==
    IF Len(bytes) >= ARTNET_BUFFER_MAX
    THEN SubSeq(bytes, 1, ARTNET_BUFFER_MAX)
    ELSE bytes \o SubSeq(buf, Len(bytes) + 1, ARTNET_BUFFER_MAX)

\* the length field of an ArtDMX packet, clamped to the capacity and to an
\* even value
ClampLength(len) ==
    LET c == IF len > DMX_SLOTS_MAX THEN DMX_SLOTS_MAX ELSE len
    IN  c - (c % 2)

DmxLengthField(buf) == 256 * At(buf, 16) + At(buf, 17)

\* whether an ArtDMX packet from address from is taken while the object is
\* locked to address sender
SenderAccepted_any(sender, from) == TRUE
SenderAccepted(sender, from) == sender = INADDR_NONE \/ sender = from

\* the opcode reported for an ArtDMX packet of another universe
WrongUniverseOpcode == ARTNET_ART_DMX

\* setUniverseAddress / setSubnetAddress on a universe byte a
UniverseAddressSet_mask7(a, u) ==
    IF u # 127 /\ HighBit(u) THEN HighNibble(a) + (u % 8) ELSE a

UniverseAddressSet(a, u) ==
    IF u # 127 /\ HighBit(u) THEN HighNibble(a) + LowNibble(u) ELSE a

SubnetAddressSet_low(a, s) ==
    IF s # 127 /\ HighBit(s) THEN HighNibble(a) + LowNibble(s) ELSE a

SubnetAddressSet(a, s) ==
    IF s # 127 /\ HighBit(s) THEN 16 * LowNibble(s) + LowNibble(a) ELSE a

\* setUniverse / setSubnetUniverse
UniverseSet_nibble(a, u) == HighNibble(a) + LowNibble(u)
UniverseSet(a, u) == u

SubnetUniverseSet(s, u) == 16 * LowNibble(s) + LowNibble(u)

\* parse_art_address on the packet in buf: the universe byte and the dmx
\* sender it leaves
AddressUniverse(buf, a) ==
    SubnetAddressSet(UniverseAddressSet(a, At(buf, ADDRESS_SWOUT)),
                     At(buf, ADDRESS_SUBSWITCH))

AddressSender(buf, sender) ==
    IF At(buf, ADDRESS_COMMAND) = CANCEL_MERGE THEN INADDR_NONE ELSE sender

\* readArtNetPacket on a packet bytes received from address from: the fields
\* it leaves, the opcode it returns, and whether it answers a poll
Decode(bytes, from) ==
    LET buf == ReadInto(_packet_buffer, bytes)
        opcode == IF Len(bytes) >= HEADER_SIZE THEN parse_header(buf)
                  ELSE ARTNET_NOP
        same == [buf |-> buf, slots |-> _dmx_slots, uni |-> _universe,
                 sender |-> _dmx_sender, ret |-> ARTNET_NOP, reply |-> FALSE]
    IN  CASE opcode = ARTNET_ART_DMX ->
               IF At(buf, 14) # _universe
               THEN [same EXCEPT !.ret = WrongUniverseOpcode]
               ELSE IF SenderAccepted(_dmx_sender, from)
               THEN [same EXCEPT !.slots = ClampLength(DmxLengthField(buf)),
                                 !.sender = from,
                                 !.ret = ARTNET_ART_DMX]
               ELSE [same EXCEPT !.ret = ARTNET_ART_DMX]
          [] opcode = ARTNET_ART_ADDRESS ->
               [same EXCEPT !.uni = AddressUniverse(buf, _universe),
                            !.sender = AddressSender(buf, _dmx_sender),
                            !.ret = ARTNET_ART_ADDRESS]
          [] opcode = ARTNET_ART_POLL ->
               [same EXCEPT !.ret = ARTNET_ART_POLL, !.reply = TRUE]
          [] opcode = ARTNET_ART_POLL_REPLY ->
               [same EXCEPT !.ret = ARTNET_ART_POLL_REPLY]
          [] OTHER -> same

\* where send_art_poll_reply sends to
ReplyDestination_unicast(remote) == remote

ReplyDestination(remote) ==
    IF _broadcast_address # INADDR_NONE THEN _broadcast_address ELSE remote

----------------------------------------------------------------------------
(* The record of the last call                                             *)

NoPacket == [kind |-> "none", uni |-> 0, len |-> 0, seed |-> 0, cmd |-> 0]

NoCall ==
    [op |-> "new", ret |-> 0, arg |-> 0, arg2 |-> 0, from |-> INADDR_NONE,
     packet |-> NoPacket,
     was |-> [sender |-> INADDR_NONE, uni |-> 0, slots |-> 0, seq |-> 0],
     sentTo |-> INADDR_NONE, sent |-> << >>]

\* a call without what it sent
Summary(c) ==
    [op |-> c.op, ret |-> c.ret, from |-> c.from, packet |-> c.packet,
     was |-> c.was]

\* a call named op made in the current state
Call(op) ==
    [NoCall EXCEPT !.op = op,
                   !.was = [sender |-> _dmx_sender, uni |-> _universe,
                            slots |-> _dmx_slots, seq |-> _sequence]]

----------------------------------------------------------------------------
(* Construction                                                            *)

\* the value _sequence is given at construction
INITIAL_SEQUENCE == 0

\* LXArtNet(address) and LXArtNet(address, subnet_mask)
Init ==
    /\ _packet_buffer = Zeros(ARTNET_BUFFER_MAX)
    /\ _dmx_slots = DMX_SLOTS_MAX
    /\ _universe = 0
    /\ _sequence = INITIAL_SEQUENCE
    /\ _my_address = NodeAddress
    /\ _broadcast_address \in {INADDR_NONE, BroadcastAddress}
    /\ _dmx_sender = INADDR_NONE
    /\ remoteIP = INADDR_NONE
    /\ sequence0 = _sequence
    /\ sends = 0
    /\ calls = 0
    /\ before = Summary(NoCall)
    /\ last = NoCall

----------------------------------------------------------------------------
(* Operations                                                              *)

\* readArtNetPacket(eUDP), the transport holding packet p from address from
readArtNetPacket(p, from) ==
    LET r == Decode(p.bytes, from)
        replied == r.reply
    IN  /\ _packet_buffer' = r.buf
        /\ _dmx_slots' = r.slots
        /\ _universe' = r.uni
        /\ _dmx_sender' = r.sender
        /\ remoteIP' = from
        /\ last' = [Call("readArtNetPacket") EXCEPT
                        !.ret = r.ret, !.from = from,
                        !.packet = [kind |-> p.kind, uni |-> p.uni,
                                    len |-> p.len, seed |-> p.seed,
                                    cmd |-> p.cmd],
                        !.sentTo = IF replied THEN ReplyDestination(from)
                                   ELSE INADDR_NONE,
                        !.sent = IF replied
                                 THEN ArtPollReply(_my_address, _universe, Locked)
                                 ELSE << >>]
        /\ UNCHANGED << _sequence, _my_address, _broadcast_address,
                        sequence0, sends >>

\* readArtNetPacket(eUDP) when the transport holds no packet
readNothing ==
    /\ last' = [Call("readArtNetPacket") EXCEPT !.ret = ARTNET_NOP]
    /\ UNCHANGED << _packet_buffer, _dmx_slots, _universe, _sequence,
                    _my_address, _broadcast_address, _dmx_sender, remoteIP, sequence0, sends >>

\* how many sendDMX calls a run of the model makes
MaxSends == 258

\* sendDMX writes the head of an ArtDMX packet over bytes 0..17 of the buffer,
\* the levels being in place behind it, and sends the head and n levels
DmxBuffer(buf, seq, uni, n) ==
    ArtDmxHead(seq, uni, n) \o SubSeq(buf, DMX_HEAD_SIZE + 1, ARTNET_BUFFER_MAX)

DmxPacket(buf, seq, uni, n) ==
    SubSeq(DmxBuffer(buf, seq, uni, n), 1, DMX_HEAD_SIZE + n)

\* sendDMX(eUDP, to_ip)
sendDMX(to_ip) ==
    LET buf == DmxBuffer(_packet_buffer, _sequence, _universe, _dmx_slots)
    IN  /\ sends < MaxSends
        /\ _packet_buffer' = buf
        /\ _sequence' = uint8(_sequence + 1)
        /\ last' = [Call("sendDMX") EXCEPT
                        !.arg = to_ip, !.sentTo = to_ip,
                        !.sent = DmxPacket(_packet_buffer, _sequence,
                                           _universe, _dmx_slots)]
        /\ sends' = sends + 1
        /\ UNCHANGED << _dmx_slots, _universe, _my_address,
                        _broadcast_address, _dmx_sender, remoteIP, sequence0 >>

\* send_art_poll_reply(eUDP)
send_art_poll_reply ==
    /\ last' = [Call("send_art_poll_reply") EXCEPT
                    !.sentTo = ReplyDestination(remoteIP),
                    !.sent = ArtPollReply(_my_address, _universe, Locked)]
    /\ UNCHANGED << _packet_buffer, _dmx_slots, _universe, _sequence,
                    _my_address, _broadcast_address, _dmx_sender, remoteIP, sequence0, sends >>

\* the setters of the universe byte
SetUniverseTo(op, a, b, value) ==
    /\ _universe' = value
    /\ last' = [Call(op) EXCEPT !.arg = a, !.arg2 = b]
    /\ UNCHANGED << _packet_buffer, _dmx_slots, _sequence, _my_address,
                    _broadcast_address, _dmx_sender, remoteIP, sequence0, sends >>

setUniverse(u) == SetUniverseTo("setUniverse", u, 0, UniverseSet(_universe, u))

setSubnetUniverse(s, u) ==
    SetUniverseTo("setSubnetUniverse", s, u, SubnetUniverseSet(s, u))

setUniverseAddress(u) ==
    SetUniverseTo("setUniverseAddress", u, 0, UniverseAddressSet(_universe, u))

setSubnetAddress(s) ==
    SetUniverseTo("setSubnetAddress", s, 0, SubnetAddressSet(_universe, s))

\* setNumberOfSlots(n): n outside 1..512 is rejected
SlotCountSet(slots, n) == IF InSlotRange(n) THEN n ELSE slots

setNumberOfSlots(n) ==
    /\ _dmx_slots' = SlotCountSet(_dmx_slots, n)
    /\ last' = [Call("setNumberOfSlots") EXCEPT !.arg = n]
    /\ UNCHANGED << _packet_buffer, _universe, _sequence, _my_address,
                    _broadcast_address, _dmx_sender, remoteIP, sequence0, sends >>

\* setSlot(slot, value): a slot outside 1..512 is not written
SlotSet(buf, slot, value) ==
    IF InSlotRange(slot)
    THEN [buf EXCEPT ![ARTNET_ADDRESS_OFFSET + slot + 1] = value]
    ELSE buf

setSlot(slot, value) ==
    /\ _packet_buffer' = SlotSet(_packet_buffer, slot, value)
    /\ last' = [Call("setSlot") EXCEPT !.arg = slot, !.arg2 = value]
    /\ UNCHANGED << _dmx_slots, _universe, _sequence, _my_address,
                    _broadcast_address, _dmx_sender, remoteIP, sequence0, sends >>

----------------------------------------------------------------------------
(* The packets the transport delivers                                      *)

\* the two controllers on the network, X and Y of the merge rule
Senders == {1, 2}

\* the level a node whose levels come from seed holds in slot i
Level(seed, i) == (50 * seed + i) % UINT8_RANGE

Payload(seed, n) == [i \in 1 .. n |-> Level(seed, i)]

\* the buffer of another node of this class holding those levels
PeerBuffer(seed) == Zeros(DMX_HEAD_SIZE) \o Payload(seed, DMX_SLOTS_MAX)

Packet(kind, uni, len, seed, cmd, bytes) ==
    [kind |-> kind, uni |-> uni, len |-> len, seed |-> seed, cmd |-> cmd,
     bytes |-> bytes]

\* the ArtDMX packet another node's sendDMX sends from n active slots
DataPacket(uni, n, seed) ==
    Packet("dmx", uni, n, seed, 0, DmxPacket(PeerBuffer(seed), 0, uni, n))

\* ArtAddress with its output universe, sub switch and command fields
AddressPacket(sw, sub, c) == Packet("address", sw, sub, 0, c, ArtAddress(sw, sub, c))

PollPacket == Packet("poll", 0, 0, 0, 0, ArtPoll)

PollReplyPacket(a) == Packet("pollreply", 0, 0, 0, 0, ArtPollReply(a, 0, FALSE))

\* the identifier with an opcode the node does not know
UNKNOWN_OPCODE == 20736

UnknownPacket(seed) ==
    Packet("unknown", 0, 0, seed, 0, PacketHead(UNKNOWN_OPCODE) \o Payload(seed, 12))

\* a packet of n bytes without the identifier
ForeignPacket(seed, n) == Packet("foreign", 0, n, seed, 0, Payload(seed, n))

\* the first n bytes of an ArtDMX packet, n less than the header
ShortPacket(n) ==
    Packet("short", 0, n, 0, 0, SubSeq(ArtDmxHead(0, 0, 2), 1, n))

\* what address a may send in a run of the whole object
PacketsFrom(a) ==
    {DataPacket(0, 2, a), DataPacket(0, 3, a), DataPacket(0, 4, a),
     DataPacket(1, 2, a), DataPacket(0, 0, a),
     AddressPacket(127, 127, CANCEL_MERGE), AddressPacket(129, 127, 0),
     PollPacket, PollReplyPacket(a), UnknownPacket(a), ForeignPacket(a, 22),
     ShortPacket(HEADER_SIZE - 1)}

----------------------------------------------------------------------------
(* The whole object, every operation, runs of at most MaxCalls calls       *)

MaxCalls == 3

Uncounted(A) == A /\ UNCHANGED << calls, before >>

Counted(A) ==
    calls < MaxCalls /\ calls' = calls + 1 /\ before' = Summary(last) /\ A

Next ==
    \/ \E from \in Senders : \E p \in PacketsFrom(from) :
           Counted(readArtNetPacket(p, from))
    \/ Counted(readNothing)
    \/ Counted(sendDMX(1))
    \/ Counted(send_art_poll_reply)
    \/ Counted(setUniverse(1))
    \/ Counted(setSubnetUniverse(0, 0))
    \/ \E u \in {127, 129} : Counted(setUniverseAddress(u))
    \/ Counted(setSubnetAddress(128))
    \/ \E n \in {0, 2} : Counted(setNumberOfSlots(n))
    \/ \E s2 \in {0, 1} : Counted(setSlot(s2, 255))

Spec == Init /\ [][Next]_vars

----------------------------------------------------------------------------
(* Claims on the whole object                                              *)

ReadOf(c, kinds) == c.op = "readArtNetPacket" /\ c.packet.kind \in kinds

\* a valid ArtDMX packet: an even length of at most 512 slots
ValidData(p) ==
    p.kind = "dmx" /\ p.len >= 2 /\ p.len <= 512 /\ p.len % 2 = 0

\* the call c read a valid ArtDMX packet for the universe the node had
ReadValidData(c) ==
    ReadOf(c, {"dmx"}) /\ ValidData(c.packet) /\ c.packet.uni = c.was.uni

\* slots 1..len hold the levels of packet p
HoldsPayload(p) == \A i \in 1 .. p.len : getSlot(i) = Level(p.seed, i)

\* C1, first half: a valid ArtDMX packet for the node's universe, read while
\* unlocked, locks the node to its sender X and leaves X's levels in the slots.
C1_FirstSenderTaken ==
    (ReadValidData(last) /\ last.was.sender = INADDR_NONE)
        => /\ _dmx_sender = last.from
           /\ HoldsPayload(last.packet)
           /\ last.ret = 20480

\* C1: unlocked, X's valid ArtDMX packet locks the node to X and leaves X's
\* levels; Y's valid ArtDMX packet read next leaves the lock on X and every
\* slot and the slot count as X's packet left them, and is reported as 0x5000.
C1_SecondSenderChangesNothing ==
    [][(ReadValidData(last) /\ last.was.sender = INADDR_NONE)
          => /\ C1_FirstSenderTaken
             /\ (ReadValidData(last') /\ last'.from # last.from)
                  => /\ _dmx_sender' = _dmx_sender
                     /\ dmxData' = dmxData
                     /\ _dmx_slots' = _dmx_slots
                     /\ last'.ret = 20480]_vars

\* the case of C1: Y's packet has been read after X's took the lock
C1_SecondSenderRead ==
    /\ ReadValidData(last) /\ ReadValidData(before)
    /\ before.was.sender = INADDR_NONE
    /\ last.was.sender = before.from
    /\ last.from # before.from

\* the call c read an ArtAddress packet with the cancel merge command
ReadCancelMerge(c) == ReadOf(c, {"address"}) /\ c.packet.cmd = 1

\* C2: locked to X, an ArtAddress packet with command 0x01 is read; the valid
\* ArtDMX packet for the node's universe read next, from any sender Y, is
\* accepted: the slots take Y's levels, the slot count Y's length, the lock Y.
C2_CancelMergeThenDataAccepted ==
    (ReadValidData(last) /\ ReadCancelMerge(before)
        /\ before.was.sender # INADDR_NONE)
        => /\ last.was.sender = INADDR_NONE
           /\ last.ret = 20480
           /\ _dmx_sender = last.from
           /\ _dmx_slots = last.packet.len
           /\ HoldsPayload(last.packet)

\* the case of C2 with Y another sender than X: locked to X, cancelled, Y read
C2_OtherSenderAfterCancel ==
    /\ ReadValidData(last) /\ ReadCancelMerge(before)
    /\ before.was.sender # INADDR_NONE
    /\ last.from # before.was.sender
    /\ _dmx_sender = last.from

\* C3: the lock is created unlocked; it is taken only by an accepted ArtDMX
\* packet, for that packet's sender; it is dropped only by reading an
\* ArtAddress packet with the cancel merge command; it never goes from one
\* sender to another.
C3_MergeLockTransitions ==
    /\ _dmx_sender = INADDR_NONE
    /\ [][_dmx_sender' # _dmx_sender
             => \/ /\ _dmx_sender = INADDR_NONE
                   /\ ReadOf(last', {"dmx"})
                   /\ last'.packet.uni = _universe
                   /\ last'.ret = 20480
                   /\ _dmx_sender' = last'.from
                \/ /\ _dmx_sender # INADDR_NONE
                   /\ _dmx_sender' = INADDR_NONE
                   /\ ReadCancelMerge(last')]_vars

\* the cases of C3: a lock taken, then dropped by cancel merge
C3_LockTakenAndDropped ==
    /\ ReadCancelMerge(last)
    /\ last.was.sender # INADDR_NONE
    /\ _dmx_sender = INADDR_NONE
    /\ ReadOf(before, {"dmx"}) /\ before.was.sender = INADDR_NONE

\* C4: a packet shorter than the 10-byte header, or without the identifier
\* in its first 8 bytes, is answered with ARTNET_NOP (0) and leaves every slot
\* level, the slot count, the lock and the universe byte as they were.
C4_ForeignPacketChangesNothing ==
    [][ReadOf(last', {"short", "foreign"})
          => /\ last'.ret = 0
             /\ dmxData' = dmxData
             /\ _dmx_slots' = _dmx_slots
             /\ _dmx_sender' = _dmx_sender
             /\ _universe' = _universe]_vars

\* C5: for every N in 1..512, odd or even, the packet sendDMX builds from N
\* active slots, read by a node that is unlocked and has the sender's
\* universe, is reported as 0x5000 and leaves N active slots holding the
\* sender's levels in slots 1..N.
C5_RoundTrip ==
    (ReadOf(last, {"dmx"}) /\ last.packet.len >= 1 /\ last.packet.len <= 512
        /\ last.was.sender = INADDR_NONE /\ last.packet.uni = last.was.uni)
        => /\ last.ret = 20480
           /\ numberOfSlots = last.packet.len
           /\ HoldsPayload(last.packet)

\* C12: an object constructed with a subnet mask sends every ArtPollReply to
\* its broadcast address, whoever sent the poll; one constructed without sends
\* each reply to the address the ArtPoll packet just read came from. This
\* holds of the reply readArtNetPacket sends on reading the poll and of
\* send_art_poll_reply called after it.
C12_ReplyDestination ==
    /\ ReadOf(last, {"poll"})
         => last.sentTo = IF _broadcast_address # INADDR_NONE
                          THEN _broadcast_address ELSE last.from
    /\ (last.op = "send_art_poll_reply" /\ ReadOf(before, {"poll"}))
         => last.sentTo = IF _broadcast_address # INADDR_NONE
                          THEN _broadcast_address ELSE before.from

\* the case of C12: no broadcast address, a packet from one address and then
\* a poll from another, answered to the other
C12_UnicastToPollSender ==
    /\ ReadOf(last, {"poll"}) /\ last.from = 2
    /\ before.op = "readArtNetPacket" /\ before.from = 1
    /\ _broadcast_address = INADDR_NONE
    /\ last.sentTo = 2

\* the slot levels, the slot count and the lock are after the step what they
\* were before it
SlotsAndLockKept ==
    /\ dmxData' = dmxData
    /\ _dmx_slots' = _dmx_slots
    /\ _dmx_sender' = _dmx_sender

\* C13: a valid ArtDMX packet whose universe byte is not the node's is
\* answered with ARTNET_NOP (0), and leaves every slot level, the slot count
\* and the lock as they were; an unlocked node stays unlocked.
C13_WrongUniverseDiscarded ==
    [][(ReadOf(last', {"dmx"}) /\ ValidData(last'.packet)
            /\ last'.packet.uni # _universe)
          => /\ last'.ret = 0
             /\ SlotsAndLockKept]_vars

\* C14: a valid ArtDMX packet of another universe, and one of the node's
\* universe from another sender than the one the node is locked to, are both
\* answered with 0x5000 and their payload is discarded: the slot levels, the
\* slot count and the lock stay as they were.
C14_DiscardedDataReported ==
    [][(ReadOf(last', {"dmx"}) /\ ValidData(last'.packet)
            /\ \/ last'.packet.uni # _universe
               \/ /\ last'.packet.uni = _universe
                  /\ _dmx_sender # INADDR_NONE
                  /\ _dmx_sender # last'.from)
          => /\ last'.ret = 20480
             /\ SlotsAndLockKept]_vars

\* C15: a packet with the identifier and an opcode other than 0x2000, 0x2100,
\* 0x5000 and 0x6000 is answered with ARTNET_NOP (0) and changes no slot
\* level, nor the slot count, the lock, the universe byte or the sequence
\* number; for a packet with the identifier and one of the four opcodes,
\* parse_header gives the little-endian 16-bit value at offset 8.
C15_UnknownOpcodeChangesNothing ==
    [][/\ ReadOf(last', {"unknown"})
            => /\ last'.ret = 0
               /\ SlotsAndLockKept
               /\ _universe' = _universe
               /\ _sequence' = _sequence
       /\ ReadOf(last', {"poll", "pollreply", "dmx", "address"})
            => /\ parse_header(_packet_buffer)'
                    = At(_packet_buffer, 8)' + 256 * At(_packet_buffer, 9)'
               /\ parse_header(_packet_buffer)'
                    = (CASE last'.packet.kind = "poll" -> 8192
                         [] last'.packet.kind = "pollreply" -> 8448
                         [] last'.packet.kind = "dmx" -> 20480
                         [] last'.packet.kind = "address" -> 24576)]_vars

\* C16: on reading an ArtPoll packet readArtNetPacket itself sends one
\* ArtPollReply (opcode 0x2100) before it returns, returns 0x2000, and leaves
\* the slot levels, the slot count, the lock and the universe byte as they
\* were; on reading an ArtPollReply packet it sends nothing and changes no
\* state.
C16_PollAnsweredReplyIgnored ==
    [][/\ ReadOf(last', {"poll"})
            => /\ last'.ret = 8192
               /\ Len(last'.sent) = 239
               /\ SubSeq(last'.sent, 9, 10) = << 0, 33 >>
               /\ SlotsAndLockKept
               /\ _universe' = _universe
       /\ ReadOf(last', {"pollreply"})
            => /\ last'.sent = << >>
               /\ SlotsAndLockKept
               /\ _universe' = _universe
               /\ _sequence' = _sequence]_vars

\* C17: in every reachable state, whatever packets (zero-length, odd-length,
\* over-long, foreign) have been read and whatever calls made, the slot count
\* is in 1..512 and every slot level is a byte.
C17_SlotCountAndLevelsInRange ==
    /\ _dmx_slots >= 1 /\ _dmx_slots <= 512
    /\ \A s \in 1 .. 512 : dmxData[s] \in 0 .. 255

SlotsAre(a) == \A i \in 1 .. _dmx_slots : getSlot(i) = Level(a, i)

\* C19: while the node is locked to A and the owner has not called setSlot or
\* setNumberOfSlots, slots 1..numberOfSlots() hold the payload of the last
\* ArtDMX packet of the node's universe read from A: each such packet from A
\* is accepted and keeps the lock, and no packet of another sender or another
\* universe, ArtPoll, foreign packet, sendDMX or send_art_poll_reply changes
\* those slots.
C19_LockedSlotsAreSenders ==
    [][/\ (ReadValidData(last')
               /\ (_dmx_sender = INADDR_NONE \/ _dmx_sender = last'.from))
            => /\ _dmx_sender' = last'.from
               /\ SlotsAre(_dmx_sender)'
       /\ (_dmx_sender # INADDR_NONE /\ SlotsAre(_dmx_sender)
               /\ _dmx_sender' = _dmx_sender
               /\ last'.op \notin {"setSlot", "setNumberOfSlots"})
            => SlotsAre(_dmx_sender)']_vars

\* C20: sendDMX changes the sequence number and the head of the packet buffer
\* only: the slot levels, the slot count, the universe byte and the lock are
\* after it what they were; the packet it sends has opcode 0x5000, the
\* universe byte, the slot count as big-endian length, and after the head
\* exactly the levels of slots 1..numberOfSlots() in order.
C20_SendDMXFrame ==
    [][last'.op = "sendDMX"
          => /\ SlotsAndLockKept
             /\ _universe' = _universe
             /\ LET p == last'.sent
                IN  /\ Len(p) = 18 + _dmx_slots
                    /\ SubSeq(p, 1, 8) = << 65, 114, 116, 45, 78, 101, 116, 0 >>
                    /\ p[9] = 0 /\ p[10] = 80
                    /\ p[15] = _universe
                    /\ 256 * p[17] + p[18] = _dmx_slots
                    /\ \A i \in 1 .. _dmx_slots : p[18 + i] = dmxData[i]]_vars

\* the case of C20: universe 1 set, two levels of that universe read, and
\* sent on
C20_ReadLevelsSent ==
    /\ last.op = "sendDMX" /\ ReadValidData(before)
    /\ universe = 1 /\ numberOfSlots = 2
    /\ last.sent[15] = 1
    /\ Len(last.sent) = 20
    /\ last.sent[19] = Level(before.from, 1)
    /\ last.sent[20] = Level(before.from, 2)

----------------------------------------------------------------------------
(* The setters of the universe byte, over bytes of every shape             *)

ByteArgs == {0, 5, 15, 16, 53, 127, 128, 133, 143, 240, 245, 255}
NibbleArgs == {0, 3, 5, 15, 19}

NextAddress ==
    \/ \E u \in ByteArgs : Uncounted(setUniverse(u))
    \/ \E s2 \in NibbleArgs, u \in NibbleArgs : Uncounted(setSubnetUniverse(s2, u))
    \/ \E u \in ByteArgs : Uncounted(setUniverseAddress(u))
    \/ \E s2 \in ByteArgs : Uncounted(setSubnetAddress(s2))

SpecAddress == Init /\ [][NextAddress]_vars

\* C7: setUniverseAddress(0x7f) leaves the universe byte a; with u # 0x7f and
\* bit 0x80 of u set it becomes (a & 0xf0) | (u & 0x0f); with bit 0x80 clear
\* it stays a.
C7_SetUniverseAddress ==
    last.op = "setUniverseAddress"
        => LET a == last.was.uni
               u == last.arg
           IN  universe = IF u = 127 THEN a
                          ELSE IF u \div 128 = 1
                               THEN 16 * (a \div 16) + (u % 16)
                               ELSE a

\* the case of C7: 0x85 on a byte with another universe and a subnet
C7_Applied ==
    /\ last.op = "setUniverseAddress" /\ last.arg = 133
    /\ last.was.uni = 243
    /\ universe = 245

\* C8: setSubnetAddress(0x7f) leaves the universe byte a; with s # 0x7f and
\* bit 0x80 of s set it becomes ((s & 0x0f) << 4) | (a & 0x0f); with bit 0x80
\* clear it stays a.
C8_SetSubnetAddress ==
    last.op = "setSubnetAddress"
        => LET a == last.was.uni
               s2 == last.arg
           IN  universe = IF s2 = 127 THEN a
                          ELSE IF s2 \div 128 = 1
                               THEN 16 * (s2 % 16) + (a % 16)
                               ELSE a

\* the case of C8: 0x85 on a byte with another subnet and a universe
C8_Applied ==
    /\ last.op = "setSubnetAddress" /\ last.arg = 133
    /\ last.was.uni = 243
    /\ universe = 83

\* C9 as stated: setUniverse(u) replaces only the low nibble and keeps the
\* subnet nibble; setSubnetUniverse(s, u) with s, u in 0..15 leaves
\* (s << 4) | u whatever the byte was.
C9_SetUniverseKeepsSubnet ==
    /\ last.op = "setUniverse"
         => /\ universe \div 16 = last.was.uni \div 16
            /\ universe % 16 = last.arg % 16
    /\ (last.op = "setSubnetUniverse" /\ last.arg \in 0 .. 15
            /\ last.arg2 \in 0 .. 15)
         => universe = 16 * last.arg + last.arg2

\* C9 amended: setUniverse(u) replaces the whole byte, universe() == u, so the
\* subnet nibble becomes that of u; setSubnetUniverse(s, u) with s, u in 0..15
\* leaves (s << 4) | u whatever the byte was.
C9_SetUniverseReplacesByte ==
    /\ last.op = "setUniverse" => universe = last.arg
    /\ (last.op = "setSubnetUniverse" /\ last.arg \in 0 .. 15
            /\ last.arg2 \in 0 .. 15)
         => universe = 16 * last.arg + last.arg2

\* the case of C9: setUniverse with another subnet nibble than the byte had
C9_SubnetReplaced ==
    /\ last.op = "setUniverse"
    /\ last.arg \div 16 # last.was.uni \div 16
    /\ last.was.uni \div 16 # 0
    /\ universe = last.arg

----------------------------------------------------------------------------
(* The slot count and the slots, at and around their limits                *)

MaxCount == 3

SlotCounts ==
    (-1 .. MaxCount) \cup {DMX_SLOTS_MAX - 1, DMX_SLOTS_MAX, DMX_SLOTS_MAX + 1}

\* slot numbers at and around the limits of 1..512
SlotArgs == {-1, 0, 1, DMX_SLOTS_MAX, DMX_SLOTS_MAX + 1}

NextSlots ==
    \/ \E n \in SlotCounts : Uncounted(setNumberOfSlots(n))
    \/ \E s2 \in SlotArgs, v \in {7, 255} : Uncounted(setSlot(s2, v))

SpecSlots == Init /\ [][NextSlots]_vars

\* C10: setNumberOfSlots(n) sets numberOfSlots() to n for n in 1..512; for
\* any other n the call is rejected, numberOfSlots() and every slot level
\* being after it what they were before.
C10_SetNumberOfSlots ==
    [][last'.op = "setNumberOfSlots"
          => /\ (last'.arg >= 1 /\ last'.arg <= 512)
                  => numberOfSlots' = last'.arg
             /\ ~(last'.arg >= 1 /\ last'.arg <= 512)
                  => /\ numberOfSlots' = numberOfSlots
                     /\ dmxData' = dmxData]_vars

\* the case of C10: 1 has been set, and 513 after it was rejected
C10_RejectedAboveLimit ==
    /\ last.op = "setNumberOfSlots" /\ last.arg = 513
    /\ last.was.slots = 1
    /\ numberOfSlots = 1

\* C11: for i in 1..512, setSlot(i, v) followed by getSlot(i) returns v and
\* no other slot changes; for i outside 1..512 (0, 513, negative) setSlot(i, v)
\* changes no slot level and no other state of the object, and getSlot(i)
\* returns 0.
C11_SetSlotGetSlot ==
    /\ [](/\ last.op = "setSlot"
               => getSlot(last.arg) =
                      (IF last.arg >= 1 /\ last.arg <= 512 THEN last.arg2
                       ELSE 0)
           /\ \A i \in {-1, 0, 513} : getSlot(i) = 0)
    /\ [][last'.op = "setSlot"
             => /\ (last'.arg >= 1 /\ last'.arg <= 512)
                     => dmxData' = [dmxData EXCEPT ![last'.arg] = last'.arg2]
                /\ ~(last'.arg >= 1 /\ last'.arg <= 512)
                     => dmxData' = dmxData
                /\ UNCHANGED << _dmx_slots, _universe, _sequence,
                                _dmx_sender >>]_vars

\* the case of C11: slot 512 written and read back, slot 1 keeping its level
C11_LastSlotWritten ==
    /\ last.op = "setSlot" /\ last.arg = 512 /\ last.arg2 = 255
    /\ getSlot(512) = 255
    /\ getSlot(1) = 7

----------------------------------------------------------------------------
(* The sequence number, over more sendDMX calls than a byte counts          *)

NextSequence ==
    \/ Uncounted(sendDMX(1))
    \/ Uncounted(readArtNetPacket(PollPacket, 1))
    \/ Uncounted(send_art_poll_reply)
    \/ Uncounted(setUniverse(1))
    \/ Uncounted(setSubnetUniverse(0, 1))
    \/ Uncounted(setUniverseAddress(129))
    \/ Uncounted(setSubnetAddress(128))
    \/ Uncounted(setNumberOfSlots(2))
    \/ Uncounted(setSlot(1, 255))

SpecSequence == Init /\ [][NextSequence]_vars

\* C6: the k-th ArtDMX packet sendDMX sends (k = 0, 1, ...) carries sequence
\* byte (initial + k) mod 256 and leaves the counter at (initial + k + 1) mod
\* 256; the counter wraps from 255 to 0 and no other operation changes it.
C6_SequenceCounts ==
    /\ _sequence = (sequence0 + sends) % 256
    /\ last.op = "sendDMX"
         => /\ sends >= 1
            /\ last.was.seq = (sequence0 + sends - 1) % 256
            /\ last.sent[13] = (sequence0 + sends - 1) % 256

\* the case of C6: the packet sent with the counter at 255, and the one after
C6_Wrapped ==
    /\ last.op = "sendDMX"
    /\ sends = 257
    /\ last.sent[13] = 0
    /\ _sequence = 1

====
